---- MODULE Spec2Model ----
(***************************************************************************)
(* Offset pagination of hexcraft-biz/envmod-mysql.                         *)
(*                                                                         *)
(* The repository holds four iterations of the same windowing handler:     *)
(*   "subset"     src/subset.go           Subset over ListArgsInterface,   *)
(*                                        DefaultLimit, MoveForward/Back   *)
(*   "subsetinit" src/unnamed/part_000    Subset whose Select calls        *)
(*                                        args.Init(), SelectNext/Previous *)
(*   "page"       src/page.go             Page over ListArgsInterface      *)
(*   "pagemap"    src/core.go             Page over map[string]any, strict *)
(*                                        validation                       *)
(* One behaviour of the model is one handler of one variant over one       *)
(* unchanged store.  The argument objects are caller-owned and passed by   *)
(* reference, so they are part of the state.                               *)
(*                                                                         *)
(*   Spec        the handler: Select and navigation, statement open        *)
(*   SpecPaging  the Paging around it (for core.go the one of README.md):  *)
(*               Paging.Select, Select with any container, Close           *)
(*   SpecFresh   two fresh handlers, one Select each                       *)
(*                                                                         *)
(* Limits and offsets are int32 by the data model and Go's int is 64 bits  *)
(* on the supported targets, so limit + 1 and offset + limit do not wrap.  *)
(***************************************************************************)
EXTENDS Integers, Sequences, FiniteSets, TLC

\* ------------------------------------------------------------------ bounds
MaxLimit == 2
MaxOffset == 2
MaxRows == 3
\* How often a map's limit may have been written back (limit + 1) before the
\* caller stops passing that map again.
MaxBump == 2
MaxTripRows == 4
MaxOpens == 3
MaxFiles == 2

\* ------------------------------------------------------- program constants
DefaultLimit == 64

Variants == {"subset", "subsetinit", "page", "pagemap"}

\* Argument objects the caller holds (references); NilArg is Go's nil.
NilArg == 0
Objects == {1, 2}

Limits == -1 .. MaxLimit
Offsets == -1 .. MaxOffset

StoreSizes == 0 .. MaxRows

\* What the caller passes as `rows any`: a pointer to a slice, or anything
\* else (a value, a pointer to something that is no slice, a nil pointer).
Containers == {"slice", "other"}

Min(a, b) == IF a < b THEN a ELSE b
Max(a, b) == IF a > b THEN a ELSE b

\* An argument object: the limit and the offset, each with the kind of value
\* it holds.  "int" is an integer; "nil" is the unset *int of part_000 or the
\* missing key of a map; "other" is a map value that is not an int.
IntArgs == [lk : {"int"}, l : Limits, ok : {"int"}, o : Offsets]
NilLimitArgs == [lk : {"nil"}, l : {0}, ok : {"int"}, o : Offsets]
MapArgs ==
    { a \in [lk : {"int", "nil", "other"}, l : Limits,
             ok : {"int", "nil", "other"}, o : Offsets] :
        /\ (a.lk # "int" => a.l = 0)
        /\ (a.ok # "int" => a.o = 0) }

\* The argument values a caller can build for each variant.
ArgValues(v) ==
    CASE v = "subset" -> IntArgs
      [] v = "page" -> IntArgs
      [] v = "subsetinit" -> IntArgs \cup NilLimitArgs
      [] v = "pagemap" -> MapArgs

VARIABLES
    variant,    \* which iteration of the handler this behaviour runs
    store,      \* the rows matching the query, in the query's order
    argv,       \* the caller's argument objects, by reference
    h,          \* the handler: args, limit, previous, next, hasPrevious, hasNext
    rows,       \* the caller's container after the last call
    last,       \* the last call: what was asked, what reached the statement
    fetch,      \* the most recent query that succeeded: its limit, offset, rows
    stmt,       \* the handler's prepared statement: "open" or "closed"
    paging,     \* the Paging around the handler: endpoint query and links
    filters,    \* what Filters() of the request parameters returns
    origin,     \* the endpoint's query string as NewPaging received it
    other,      \* a second handler, fresh, and what its Select returned
    walk,       \* a caller's loop over SelectNext: calls made, rows collected
    trip,       \* the window a caller left with SelectNext, to come back to
    mysql,      \* the Mysql value: the pool it holds and every pool it opened
    dbinit      \* one DBInit call: where it is, its connection, files applied

vars == <<variant, store, argv, h, rows, last, fetch, stmt, paging, filters,
         origin, other, walk, trip, mysql, dbinit>>

\* NewSubset / NewPageHandler: the zero handler.
NewHandler ==
    [args |-> NilArg, limit |-> 0, previous |-> 0, next |-> 0,
     hasPrevious |-> FALSE, hasNext |-> FALSE]

NoCall ==
    [op |-> "none", arg |-> NilArg, first |-> FALSE,
     req |-> [lk |-> "nil", l |-> 0, ok |-> "nil", o |-> 0],
     err |-> "nil", queried |-> FALSE,
     q |-> [lk |-> "nil", l |-> 0, ok |-> "nil", o |-> 0],
     fetched |-> 0, fail |-> FALSE, cont |-> "slice", stmt |-> "open"]

NoFetch == [done |-> FALSE, l |-> 0, o |-> 0, n |-> 0]

\* The second handler before its Select.
NoOther ==
    [called |-> FALSE, arg |-> NilArg, req |-> NoCall.req, err |-> "nil",
     h |-> NewHandler, rows |-> <<>>]

\* ---------------------------------------------------------------- the store
\* The prepared statement is "... LIMIT :l OFFSET :o".  It fails when the
\* connection fails, when a named parameter is missing or is no integer, and
\* when MySQL is handed a negative LIMIT or OFFSET.
StmtOK(a, fail) ==
    /\ ~fail
    /\ a.lk = "int" /\ a.ok = "int"
    /\ a.l >= 0 /\ a.o >= 0

\* The rows LIMIT a.l OFFSET a.o selects.
StmtRows(a) == SubSeq(store, a.o + 1, Min(Len(store), a.o + a.l))

\* Mutant: the previous offset is brought down to a multiple of the limit.
CalcPreviousAligned(hh, o) ==
    IF o > 0
    THEN [hh EXCEPT !.previous = Max(0, ((o - hh.limit) \div Max(hh.limit, 1))
                                            * hh.limit),
                    !.hasPrevious = TRUE]
    ELSE [hh EXCEPT !.previous = 0, !.hasPrevious = FALSE]

\* Mutant: the next window begins after the extra row.
CalcNextSkip(hh, o, numRows) ==
    IF numRows > hh.limit
    THEN [hh EXCEPT !.next = o + numRows, !.hasNext = TRUE]
    ELSE [hh EXCEPT !.next = o + numRows, !.hasNext = FALSE]

\* -------------------------------------------------------------- the window
\* "calc previous": the previous offset and whether there is one.
CalcPrevious(hh, o) ==
    IF o > 0
    THEN [hh EXCEPT !.previous = Max(0, o - hh.limit), !.hasPrevious = TRUE]
    ELSE [hh EXCEPT !.previous = 0, !.hasPrevious = FALSE]

\* "calc next": the next offset and whether there is one, from the number of
\* rows the statement returned.
CalcNext(hh, o, numRows) ==
    IF numRows > hh.limit
    THEN [hh EXCEPT !.next = o + hh.limit, !.hasNext = TRUE]
    ELSE [hh EXCEPT !.next = o + numRows, !.hasNext = FALSE]

\* Mutant: the extra row is left in the container.
TrimNone(hh, fetched) == fetched

\* container.SetLen: the container cut to the page size.
Trim(hh, fetched) ==
    IF Len(fetched) > hh.limit THEN SubSeq(fetched, 1, hh.limit) ELSE fetched

\* The result of one call: the handler, the arguments and the container after
\* it, the error it returns, and what it handed to the statement.
Result(hh, av, rws, err, queried, q, fetched) ==
    [h |-> hh, argv |-> av, rows |-> rws, err |-> err,
     queried |-> queried, q |-> q, fetched |-> fetched]

\* Mutant: an execution that failed is tried again, the store being back.
RunAndCalcRetry(hh, av, qa, o, rws, c, fail) ==
    IF ~StmtOK(qa, FALSE)
    THEN Result(hh, av, rws, "ErrQuery", TRUE, qa, 0)
    ELSE LET fetched == StmtRows(qa)
             h0 == CalcPrevious(hh, o)
             h1 == CalcNext(h0, o, Len(fetched))
         IN  IF hh.args = NilArg
             THEN Result(hh, av, IF c = "slice" THEN fetched ELSE rws,
                         "nil", TRUE, qa, Len(fetched))
             ELSE IF c # "slice"
             THEN Result(h0, av, rws, "ErrInvalidContainer", TRUE, qa, 0)
             ELSE Result(h1, av, Trim(hh, fetched), "nil", TRUE, qa, Len(fetched))

\* The part every Select shares: run the statement once with argument `qa`
\* and return its error as it is; otherwise derive the previous window from
\* offset `o`, check the container `c`, derive the next window and trim.
RunAndCalc(hh, av, qa, o, rws, c, fail) ==
    IF ~StmtOK(qa, fail)
    THEN Result(hh, av, rws, "ErrQuery", TRUE, qa, 0)
    ELSE LET fetched == StmtRows(qa)
             h0 == CalcPrevious(hh, o)
             h1 == CalcNext(h0, o, Len(fetched))
         IN  IF hh.args = NilArg
             THEN Result(hh, av, IF c = "slice" THEN fetched ELSE rws,
                         "nil", TRUE, qa, Len(fetched))
             ELSE IF c # "slice"
             THEN Result(h0, av, rws, "ErrInvalidContainer", TRUE, qa, 0)
             ELSE Result(h1, av, Trim(hh, fetched), "nil", TRUE, qa, Len(fetched))

\* ------------------------------------------------------------------ Select
\* Mutant: the limit is taken from the argument on every call, not only on
\* the first.
SubsetSelectRebind(hh, av, a, rws, c, fail) ==
    LET lim == IF av[a].l < 1 THEN DefaultLimit ELSE av[a].l
        arg1 == [av[a] EXCEPT !.l = lim + 1,
                              !.o = IF av[a].o < 0 THEN 0 ELSE av[a].o]
        av1 == [av EXCEPT ![a] = arg1]
        h1 == [hh EXCEPT !.args = a, !.limit = lim]
    IN  RunAndCalc(h1, av1, av1[a], av1[h1.args].o, rws, c, fail)

\* Mutant: a limit below 1 becomes 1 (as in page.go) and a negative offset is
\* left as it is.
SubsetSelectNoDefault(hh, av, a, rws, c, fail) ==
    LET bind == hh.args = NilArg
        lim == IF av[a].l < 1 THEN 1 ELSE av[a].l
        arg1 == [av[a] EXCEPT !.l = lim + 1]
        av1 == IF bind THEN [av EXCEPT ![a] = arg1] ELSE av
        h1 == IF bind THEN [hh EXCEPT !.args = a, !.limit = lim] ELSE hh
    IN  RunAndCalc(h1, av1, av1[a], av1[h1.args].o, rws, c, fail)

\* Subset.Select of src/subset.go.  The first call binds the argument: a limit
\* below 1 becomes DefaultLimit, the argument's limit becomes limit + 1 and a
\* negative offset becomes 0.  The statement runs with the argument passed;
\* the descriptors are derived from the offset of the bound argument.
SubsetSelect(hh, av, a, rws, c, fail) ==
    LET bind == hh.args = NilArg
        lim == IF av[a].l < 1 THEN DefaultLimit ELSE av[a].l
        arg1 == [av[a] EXCEPT !.l = lim + 1,
                              !.o = IF av[a].o < 0 THEN 0 ELSE av[a].o]
        av1 == IF bind THEN [av EXCEPT ![a] = arg1] ELSE av
        h1 == IF bind THEN [hh EXCEPT !.args = a, !.limit = lim] ELSE hh
    IN  RunAndCalc(h1, av1, av1[a], av1[h1.args].o, rws, c, fail)

\* Mutant: an unset limit and a limit below 1 both become DefaultLimit.
ArgsInitOneDefault(arg) ==
    IF arg.lk = "nil" \/ arg.l < 1
    THEN [arg EXCEPT !.lk = "int", !.l = DefaultLimit]
    ELSE arg

\* ListQueryParams.Init of src/unnamed/part_000: an unset limit becomes
\* DefaultLimit, a limit below 1 becomes 1.
ArgsInit(arg) ==
    IF arg.lk = "nil" THEN [arg EXCEPT !.lk = "int", !.l = DefaultLimit]
    ELSE IF arg.l < 1 THEN [arg EXCEPT !.l = 1]
    ELSE arg

\* Subset.Select of src/unnamed/part_000: args.Init() on every call, then the
\* binding of the first call; the descriptors are derived from the offset of
\* the bound argument.
SubsetInitSelect(hh, av, a, rws, c, fail) ==
    LET bind == hh.args = NilArg
        arg0 == ArgsInit(av[a])
        lim == IF arg0.l < 1 THEN 1 ELSE arg0.l
        arg1 == [arg0 EXCEPT !.l = lim + 1,
                             !.o = IF arg0.o < 0 THEN 0 ELSE arg0.o]
        av1 == [av EXCEPT ![a] = IF bind THEN arg1 ELSE arg0]
        h1 == IF bind THEN [hh EXCEPT !.args = a, !.limit = lim] ELSE hh
    IN  RunAndCalc(h1, av1, av1[a], av1[h1.args].o, rws, c, fail)

\* Mutant: the page size itself is written back, so no extra row is asked for.
PageSelectNoOverfetch(hh, av, a, rws, c, fail) ==
    LET bind == hh.args = NilArg
        lim == IF av[a].l < 1 THEN 1 ELSE av[a].l
        arg1 == [av[a] EXCEPT !.l = lim,
                              !.o = IF av[a].o < 0 THEN 0 ELSE av[a].o]
        av1 == IF bind THEN [av EXCEPT ![a] = arg1] ELSE av
        h1 == IF bind THEN [hh EXCEPT !.args = a, !.limit = lim] ELSE hh
    IN  RunAndCalc(h1, av1, av1[a], av1[a].o, rws, c, fail)

\* Page.Select of src/page.go: a limit below 1 becomes 1; the descriptors are
\* derived from the offset of the argument passed.
PageSelect(hh, av, a, rws, c, fail) ==
    LET bind == hh.args = NilArg
        lim == IF av[a].l < 1 THEN 1 ELSE av[a].l
        arg1 == [av[a] EXCEPT !.l = lim + 1,
                              !.o = IF av[a].o < 0 THEN 0 ELSE av[a].o]
        av1 == IF bind THEN [av EXCEPT ![a] = arg1] ELSE av
        h1 == IF bind THEN [hh EXCEPT !.args = a, !.limit = lim] ELSE hh
    IN  RunAndCalc(h1, av1, av1[a], av1[a].o, rws, c, fail)

\* Page.Select of src/core.go, over a map.  With a limit key: the limit must
\* be an int >= 1 (the first call takes it as the page size and writes
\* limit + 1 back), the offset an int >= 0 (a missing offset becomes 0), and
\* the map becomes the bound argument.  Without a limit key nothing is
\* checked or bound.
PageMapSelect(hh, av, a, rws, c, fail) ==
    LET arg0 == av[a]
        bind == hh.args = NilArg
        h1 == IF bind THEN [hh EXCEPT !.limit = arg0.l] ELSE hh
        arg1 == IF bind THEN [arg0 EXCEPT !.l = arg0.l + 1] ELSE arg0
        arg2 == IF arg1.ok = "nil" THEN [arg1 EXCEPT !.ok = "int", !.o = 0]
                ELSE arg1
    IN  IF arg0.lk = "nil"
        THEN RunAndCalc(hh, av, arg0,
                        IF hh.args = NilArg THEN 0 ELSE av[hh.args].o,
                        rws, c, fail)
        ELSE IF arg0.lk # "int" \/ arg0.l < 1
        THEN Result(hh, av, rws, "ErrInvalidLimit", FALSE, arg0, 0)
        ELSE IF arg1.ok = "other" \/ (arg1.ok = "int" /\ arg1.o < 0)
        THEN Result(h1, [av EXCEPT ![a] = arg1], rws, "ErrInvalidOffset",
                    FALSE, arg1, 0)
        ELSE RunAndCalc([h1 EXCEPT !.args = a], [av EXCEPT ![a] = arg2],
                        arg2, arg2.o, rws, c, fail)

\* Select of the variant in use.
SelectOf(v, hh, av, a, rws, c, fail) ==
    CASE v = "subset" -> SubsetSelect(hh, av, a, rws, c, fail)
      [] v = "subsetinit" -> SubsetInitSelect(hh, av, a, rws, c, fail)
      [] v = "page" -> PageSelect(hh, av, a, rws, c, fail)
      [] v = "pagemap" -> PageMapSelect(hh, av, a, rws, c, fail)

\* ---------------------------------------------------------------- navigation
\* The error of a previous/next request with nothing there: ErrBOF / ErrEOF,
\* and sql.ErrNoRows in src/core.go.
BoundaryErr(v, e) == IF v = "pagemap" THEN "ErrNoRows" ELSE e

\* h.args.SetOffset(o) / h.args[KeyOffset] = o.
SetOffset(av, a, o) == [av EXCEPT ![a] = [@ EXCEPT !.ok = "int", !.o = o]]

\* SelectPrevious: with a previous window, move the bound argument there and
\* Select with it; without one, the boundary error and nothing else.
SelectPreviousOf(v, hh, av, rws, c, fail) ==
    IF hh.hasPrevious
    THEN SelectOf(v, hh, SetOffset(av, hh.args, hh.previous), hh.args, rws, c, fail)
    ELSE Result(hh, av, rws, BoundaryErr(v, "ErrBOF"), FALSE, NoCall.q, 0)

\* SelectNext, likewise.
SelectNextOf(v, hh, av, rws, c, fail) ==
    IF hh.hasNext
    THEN SelectOf(v, hh, SetOffset(av, hh.args, hh.next), hh.args, rws, c, fail)
    ELSE Result(hh, av, rws, BoundaryErr(v, "ErrEOF"), FALSE, NoCall.q, 0)

\* Subset.MoveBackward / MoveForward of src/subset.go: only the bound
\* argument's offset moves; the caller then calls Select.
MoveBackwardOf(hh, av, rws) ==
    IF hh.hasPrevious
    THEN Result(hh, SetOffset(av, hh.args, hh.previous), rws, "nil", FALSE, NoCall.q, 0)
    ELSE Result(hh, av, rws, "ErrBOF", FALSE, NoCall.q, 0)

MoveForwardOf(hh, av, rws) ==
    IF hh.hasNext
    THEN Result(hh, SetOffset(av, hh.args, hh.next), rws, "nil", FALSE, NoCall.q, 0)
    ELSE Result(hh, av, rws, "ErrEOF", FALSE, NoCall.q, 0)

\* GetPrevious / GetNext: the effective limit, the offset, and the boundary
\* error when there is no such window.
GetPrevious ==
    [limit |-> h.limit, offset |-> h.previous,
     err |-> IF h.hasPrevious THEN "nil" ELSE "ErrBOF"]

GetNext ==
    [limit |-> h.limit, offset |-> h.next,
     err |-> IF h.hasNext THEN "nil" ELSE "ErrEOF"]

\* --------------------------------------------------------------- statement
\* Mutant: closing a statement that is closed already frees it twice.
StmtCloseTwice(st) == IF st = "closed" THEN "freed twice" ELSE "closed"

\* h.stmt.Close(): the statement is released; closing a statement that is
\* closed already does nothing (database/sql).  Close discards the result.
StmtClose(st) == "closed"

\* The statement cannot run: the store fails, or the statement is released.
Broken(st, fail) == fail \/ st # "open"

\* ------------------------------------------------------------------- links
KeyLimit == "l"
KeyOffset == "o"

\* A query string is a set of <<key, value>> pairs, one value per key.
\* url.Values.Set, delete(filters, k) and the loop that sets every filter.
QuerySet(q, k, v) == {p \in q : p[1] # k} \cup {<<k, v>>}
QueryDel(q, k) == {p \in q : p[1] # k}
QuerySetAll(q, f) == {p \in q : \A x \in f : x[1] # p[1]} \cup f

\* strconv.Itoa.
Itoa(n) == ToString(n)

\* The query strings a caller's endpoint arrives with and the filter maps its
\* request parameters return.
EndpointQueries == {{}, {<<"utm", "x">>}}
FilterMaps ==
    {{}, {<<"status", "open">>},
     {<<"status", "open">>, <<"l", "9">>, <<"o", "9">>}}

\* *string: nil, or the URL whose query string is `q`.
NoLink == [set |-> FALSE, query |-> {}]
Link(q) == [set |-> TRUE, query |-> q]

\* NewPaging: subset.go and part_000 empty the endpoint's query string,
\* page.go and README.md keep it.
NewPaging(v, orig) ==
    [endpoint |-> IF v \in {"subset", "subsetinit"} THEN {} ELSE orig,
     previous |-> NoLink, next |-> NoLink]

\* Mutant: the next link is built whether or not there is a next window.
SetPagingUrlAlways(pg, flt, hh) ==
    LET q1 == QuerySetAll(pg.endpoint, QueryDel(QueryDel(flt, KeyLimit), KeyOffset))
        q3 == QuerySet(QuerySet(q1, KeyLimit, Itoa(hh.limit)), KeyOffset, Itoa(hh.next))
    IN  [pg EXCEPT !.endpoint = q3, !.next = Link(q3)]

\* The link part of Paging.Select / setPagingUrl: the endpoint's query, the
\* filters without the limit and offset keys, then for each window there is
\* the limit and the offset, the endpoint re-encoded and its string kept.
SetPagingUrl(pg, flt, hh) ==
    LET q1 == QuerySetAll(pg.endpoint, QueryDel(QueryDel(flt, KeyLimit), KeyOffset))
        q2 == IF hh.hasPrevious
              THEN QuerySet(QuerySet(q1, KeyLimit, Itoa(hh.limit)),
                            KeyOffset, Itoa(hh.previous))
              ELSE q1
        pg1 == IF hh.hasPrevious
               THEN [pg EXCEPT !.endpoint = q2, !.previous = Link(q2)]
               ELSE pg
        q3 == QuerySet(QuerySet(q2, KeyLimit, Itoa(hh.limit)), KeyOffset, Itoa(hh.next))
    IN  IF hh.hasNext
        THEN [pg1 EXCEPT !.endpoint = q3, !.next = Link(q3)]
        ELSE pg1

\* Paging.Select around the result `r` of the handler's Select.  subset.go,
\* part_000 and page.go defer Close before they call Select; README.md defers
\* it after Select has returned nil.
PagingSelectOf(v, st, pg, flt, r) ==
    IF r.err # "nil"
    THEN [stmt |-> IF v = "pagemap" THEN st ELSE StmtClose(st), paging |-> pg]
    ELSE [stmt |-> StmtClose(st), paging |-> SetPagingUrl(pg, flt, r.h)]

\* ------------------------------------------------------------------ actions
\* The caller stops calling once an offset has run past the store by more
\* than a page.
OffsetCap == MaxRows + MaxLimit + 1
InRange == \A a \in Objects : argv[a].o <= OffsetCap

\* What a call `op` with argument `a` and container `c` that ended as `r`
\* leaves of the handler, the arguments and the container; `fail` says
\* whether the statement could not run during the call.
Answer(op, a, c, r, fail) ==
    /\ InRange
    /\ h' = r.h
    /\ argv' = r.argv
    /\ rows' = r.rows
    /\ last' = [op |-> op, arg |-> a, first |-> h.args = NilArg,
                req |-> IF a = NilArg THEN NoCall.req ELSE argv[a],
                err |-> r.err, queried |-> r.queried, q |-> r.q,
                fetched |-> r.fetched, fail |-> r.queried /\ fail,
                cont |-> c, stmt |-> stmt]
    /\ fetch' = IF r.queried /\ r.err = "nil"
                THEN [done |-> TRUE, l |-> r.q.l, o |-> r.q.o, n |-> r.fetched]
                ELSE fetch
    /\ UNCHANGED <<variant, store, filters, origin, other>>

\* The state after a call of the handler itself.
Return(op, a, c, r, fail) ==
    /\ Answer(op, a, c, r, fail)
    /\ UNCHANGED <<stmt, paging, walk, trip, mysql, dbinit>>

\* No loop over SelectNext has begun.
NoWalk == [on |-> FALSE, calls |-> 0, seen |-> <<>>]

\* No window has been left with SelectNext.
NoTrip == [on |-> FALSE, back |-> FALSE, o |-> 0, rows |-> <<>>, h |-> NewHandler]

\* A Mysql value as New returns it: no pool held, none opened yet.
NoMysql ==
    [version |-> "core", DB |-> 0, pools |-> <<>>, op |-> "none", err |-> "nil"]

\* DBInit has not been called.
NoDBInit ==
    [pc |-> "idle", conn |-> "none", sortedFiles |-> <<>>, dir |-> {},
     exists |-> FALSE, hasDB |-> FALSE, tried |-> <<>>, applied |-> <<>>,
     err |-> "nil", errFile |-> 0]

\* The parts of the state the handler's own calls never touch, at rest.
Apart ==
    /\ walk = NoWalk
    /\ trip = NoTrip
    /\ mysql = NoMysql
    /\ dbinit = NoDBInit

\* A handler with its statement prepared, no Paging parameters.
Init ==
    /\ variant \in Variants
    /\ store \in {[i \in 1 .. n |-> i] : n \in StoreSizes}
    /\ argv \in [Objects -> ArgValues(variant)]
    /\ h = NewHandler
    /\ rows = <<>>
    /\ last = NoCall
    /\ fetch = NoFetch
    /\ stmt = "open"
    /\ filters = {}
    /\ origin = {}
    /\ paging = NewPaging(variant, origin)
    /\ other = NoOther
    /\ Apart

\* The caller calls Select with one of its argument objects.
Select(a, c, fail) ==
    /\ variant = "pagemap" => argv[a].l <= MaxLimit + MaxBump
    /\ Return("Select", a, c,
              SelectOf(variant, h, argv, a, rows, c, Broken(stmt, fail)),
              Broken(stmt, fail))

SelectPrevious(c, fail) ==
    /\ variant # "subset"
    /\ Return("SelectPrevious", h.args, c,
              SelectPreviousOf(variant, h, argv, rows, c, Broken(stmt, fail)),
              Broken(stmt, fail))

SelectNext(c, fail) ==
    /\ variant # "subset"
    /\ Return("SelectNext", h.args, c,
              SelectNextOf(variant, h, argv, rows, c, Broken(stmt, fail)),
              Broken(stmt, fail))

MoveBackward ==
    /\ variant = "subset"
    /\ Return("MoveBackward", h.args, "slice", MoveBackwardOf(h, argv, rows), FALSE)

MoveForward ==
    /\ variant = "subset"
    /\ Return("MoveForward", h.args, "slice", MoveForwardOf(h, argv, rows), FALSE)

\* Paging.Select: the handler's Select, the deferred Close and the links.
PagingSelect(a, c, fail) ==
    LET r == SelectOf(variant, h, argv, a, rows, c, Broken(stmt, fail))
        p == PagingSelectOf(variant, stmt, paging, filters, r)
    IN  /\ variant = "pagemap" => argv[a].l <= MaxLimit + MaxBump
        /\ Answer("PagingSelect", a, c, r, Broken(stmt, fail))
        /\ stmt' = p.stmt
        /\ paging' = p.paging
        /\ UNCHANGED <<walk, trip, mysql, dbinit>>

\* Close of the handler, by the caller.
Close ==
    /\ stmt' = StmtClose(stmt)
    /\ last' = [NoCall EXCEPT !.op = "Close", !.stmt = stmt]
    /\ UNCHANGED <<variant, store, argv, h, rows, fetch, paging, filters,
                   origin, other, walk, trip, mysql, dbinit>>

\* A handler that is always handed a pointer to a slice and is never closed.
Next ==
    \/ \E a \in Objects, fail \in BOOLEAN : Select(a, "slice", fail)
    \/ \E fail \in BOOLEAN : SelectPrevious("slice", fail)
    \/ \E fail \in BOOLEAN : SelectNext("slice", fail)
    \/ MoveBackward
    \/ MoveForward

Spec == Init /\ [][Next]_vars

\* The argument object that holds the request's limit and offset.
Request == 1

\* One request served through a Paging: the Paging as NewPaging built it from
\* the caller's endpoint and request parameters, and the request's argument,
\* the only one the caller passes.
InitPaging ==
    /\ variant \in Variants
    /\ store \in {[i \in 1 .. n |-> i] : n \in StoreSizes}
    /\ argv \in {f \in [Objects -> ArgValues(variant)] : f[1] = f[2]}
    /\ h = NewHandler
    /\ rows = <<>>
    /\ last = NoCall
    /\ fetch = NoFetch
    /\ stmt = "open"
    /\ filters \in FilterMaps
    /\ origin \in EndpointQueries
    /\ paging = NewPaging(variant, origin)
    /\ other = NoOther
    /\ Apart

\* The caller of a Paging: Select of the Paging, Select of the handler it
\* embeds, with any container, and Close, in any order.
NextPaging ==
    \/ \E c \in Containers, fail \in BOOLEAN : PagingSelect(Request, c, fail)
    \/ \E c \in Containers, fail \in BOOLEAN : Select(Request, c, fail)
    \/ Close

SpecPaging == InitPaging /\ [][NextPaging]_vars

\* Mutant: the second handler is not fresh, it works on the state of the
\* first.
OtherSelectShared(v, hh, oth, av, a) ==
    SelectOf(v, hh, av, a, oth.rows, "slice", FALSE)

\* Select of the second handler into its own container, the store working;
\* the first handler, `hh`, has no part in it.
OtherSelectOf(v, hh, oth, av, a) ==
    SelectOf(v, oth.h, av, a, oth.rows, "slice", FALSE)

\* The first Select of the first handler, the store working.
FirstSelect(a) ==
    /\ last.op = "none"
    /\ Select(a, "slice", FALSE)

\* After it, the first Select of a second handler built over the same store,
\* with the same argument object or with the other one.
OtherSelect(a) ==
    LET r == OtherSelectOf(variant, h, other, argv, a)
    IN  /\ last.op = "Select"
        /\ ~other.called
        /\ other' = [called |-> TRUE, arg |-> a, req |-> argv[a],
                     err |-> r.err, h |-> r.h, rows |-> r.rows]
        /\ argv' = r.argv
        /\ UNCHANGED <<variant, store, h, rows, last, fetch, stmt, paging,
                       filters, origin, walk, trip, mysql, dbinit>>

\* Two fresh handlers, one Select each, one after the other.
NextFresh ==
    \/ \E a \in Objects : FirstSelect(a)
    \/ \E a \in Objects : OtherSelect(a)

SpecFresh == Init /\ [][NextFresh]_vars

\* ---- A caller that reads the whole store, window after window ----

\* The variants whose handler has SelectNext.
Walkers == Variants \ {"subset"}

\* The argument of a walk: an integer limit of at least 1, offset 0.
WalkArgs(v) ==
    {a \in ArgValues(v) : a.lk = "int" /\ a.l >= 1 /\ a.ok = "int" /\ a.o = 0}

InitWalk ==
    /\ variant \in Walkers
    /\ store \in {[i \in 1 .. n |-> i] : n \in StoreSizes}
    /\ argv \in [Objects -> WalkArgs(variant)]
    /\ h = NewHandler
    /\ rows = <<>>
    /\ last = NoCall
    /\ fetch = NoFetch
    /\ stmt = "open"
    /\ filters = {}
    /\ origin = {}
    /\ paging = NewPaging(variant, origin)
    /\ other = NoOther
    /\ Apart

\* The rows a call hands to the caller: its window, or nothing on an error.
Window(r) == IF r.err = "nil" THEN r.rows ELSE <<>>

\* The first window: Select with one of the arguments, the statement
\* answering.
WalkSelect(a) ==
    LET r == SelectOf(variant, h, argv, a, rows, "slice", FALSE)
    IN  /\ ~walk.on
        /\ Answer("Select", a, "slice", r, FALSE)
        /\ walk' = [on |-> TRUE, calls |-> 0, seen |-> Window(r)]
        /\ UNCHANGED <<stmt, paging, trip, mysql, dbinit>>

\* The loop: SelectNext as long as the last call returned a window.
WalkNext ==
    LET r == SelectNextOf(variant, h, argv, rows, "slice", FALSE)
    IN  /\ walk.on
        /\ last.err = "nil"
        /\ walk.calls <= Len(store) + 1
        /\ Answer("SelectNext", h.args, "slice", r, FALSE)
        /\ walk' = [walk EXCEPT !.calls = @ + 1, !.seen = @ \o Window(r)]
        /\ UNCHANGED <<stmt, paging, trip, mysql, dbinit>>

NextWalk ==
    \/ \E a \in Objects : WalkSelect(a)
    \/ WalkNext

SpecWalk == InitWalk /\ [][NextWalk]_vars

\* ---- A caller that steps forward and comes back ----

\* The handler shows a window: the last call returned rows fetched at the
\* offset the bound argument holds.
AtWindow ==
    /\ last.op \in {"Select", "SelectNext", "SelectPrevious"}
    /\ last.queried
    /\ last.err = "nil"
    /\ h.args # NilArg
    /\ fetch.o = argv[h.args].o

InitTrip ==
    /\ variant \in Walkers
    /\ store \in {[i \in 1 .. n |-> i] : n \in 0 .. MaxTripRows}
    /\ argv \in [Objects -> ArgValues(variant)]
    /\ h = NewHandler
    /\ rows = <<>>
    /\ last = NoCall
    /\ fetch = NoFetch
    /\ stmt = "open"
    /\ filters = {}
    /\ origin = {}
    /\ paging = NewPaging(variant, origin)
    /\ other = NoOther
    /\ Apart

\* Select: whatever window was being left is forgotten.
TripSelect(a, fail) ==
    /\ variant = "pagemap" => argv[a].l <= MaxLimit + MaxBump
    /\ Answer("Select", a, "slice",
              SelectOf(variant, h, argv, a, rows, "slice", fail), fail)
    /\ trip' = NoTrip
    /\ UNCHANGED <<stmt, paging, walk, mysql, dbinit>>

\* SelectNext: when it leaves a window and succeeds, the caller keeps what
\* the window was.
TripNext(fail) ==
    LET r == SelectNextOf(variant, h, argv, rows, "slice", fail)
    IN  /\ Answer("SelectNext", h.args, "slice", r, fail)
        /\ trip' = IF AtWindow /\ r.err = "nil"
                    THEN [on |-> TRUE, back |-> FALSE, o |-> argv[h.args].o,
                          rows |-> rows, h |-> h]
                    ELSE NoTrip
        /\ UNCHANGED <<stmt, paging, walk, mysql, dbinit>>

\* SelectPrevious: when it follows that SelectNext and succeeds, the caller
\* is back.
TripPrevious(fail) ==
    LET r == SelectPreviousOf(variant, h, argv, rows, "slice", fail)
    IN  /\ Answer("SelectPrevious", h.args, "slice", r, fail)
        /\ trip' = IF trip.on /\ r.err = "nil"
                    THEN [trip EXCEPT !.on = FALSE, !.back = TRUE]
                    ELSE NoTrip
        /\ UNCHANGED <<stmt, paging, walk, mysql, dbinit>>

NextTrip ==
    \/ \E a \in Objects, fail \in BOOLEAN : TripSelect(a, fail)
    \/ \E fail \in BOOLEAN : TripNext(fail)
    \/ \E fail \in BOOLEAN : TripPrevious(fail)

SpecTrip == InitTrip /\ [][NextTrip]_vars

\* ---- The Mysql value: Open, Close and DBInit ----

\* The two iterations of the Mysql type: core.go, whose connectWithMode only
\* opens the pool, and the earlier one, whose ConnectWithMode pings it too.
MysqlVersions == {"core", "part_001"}

\* Schema files, by name; the directory is walked in the order of the names.
FileNames == 1 .. MaxFiles
FileLists == UNION {[1 .. k -> FileNames] : k \in 0 .. MaxFiles}

\* sql.DB.Close on one of the pools; closing a closed pool changes nothing.
PoolClose(pools, db) == [pools EXCEPT ![db] = "closed"]

\* Mysql.Close: closes the pool the value holds, if it holds one, and keeps
\* the reference.
MysqlCloseOf(m) ==
    IF m.DB # 0 THEN [m EXCEPT !.pools = PoolClose(m.pools, m.DB)] ELSE m

\* connectWithMode / ConnectWithMode: sqlx.Open, the pool's settings and, in
\* the earlier iteration, a Ping whose failure closes the new pool. Returns
\* the pools there are afterwards, the pool returned (0 for nil) and the
\* error.
ConnectWithModeOf(version, pools, openErr, pingErr) ==
    IF openErr
    THEN [pools |-> pools, db |-> 0, err |-> "ErrOpen"]
    ELSE IF version = "part_001" /\ pingErr
    THEN [pools |-> Append(pools, "closed"), db |-> 0, err |-> "ErrPing"]
    ELSE [pools |-> Append(pools, "open"), db |-> Len(pools) + 1, err |-> "nil"]

\* Mutant: Open replaces the pool without closing the one it holds.
MysqlOpenLeak(m, openErr, pingErr) ==
    LET c == ConnectWithModeOf(m.version, m.pools, openErr, pingErr)
    IN  [m EXCEPT !.DB = c.db, !.pools = c.pools, !.op = "Open", !.err = c.err]

\* Mysql.Open: Close, then connect and keep what the connect returned.
MysqlOpenOf(m, openErr, pingErr) ==
    LET m0 == MysqlCloseOf(m)
        c == ConnectWithModeOf(m0.version, m0.pools, openErr, pingErr)
    IN  [m0 EXCEPT !.DB = c.db, !.pools = c.pools, !.op = "Open", !.err = c.err]

\* DBInit returns: the deferred Close of its connection runs.
DBInitReturn(d, err, file) ==
    [d EXCEPT !.pc = "done", !.err = err, !.errFile = file,
              !.conn = IF d.conn = "none" THEN "none" ELSE "closed"]

\* DBInit, the connect in init mode.
DBInitConnectOf(d, files, openErr) ==
    LET d0 == [d EXCEPT !.sortedFiles = files]
    IN  IF openErr
        THEN DBInitReturn(d0, "ErrOpen", 0)
        ELSE [d0 EXCEPT !.conn = "open", !.pc = "check"]

\* DBInit, the query whether the database exists.
DBInitCheckOf(d, getErr) ==
    IF getErr
    THEN DBInitReturn(d, "ErrGet", 0)
    ELSE IF d.exists
    THEN DBInitReturn([d EXCEPT !.hasDB = TRUE], "nil", 0)
    ELSE [d EXCEPT !.pc = "create"]

\* DBInit, CREATE DATABASE and USE (whose result is not looked at).
DBInitCreateOf(d, execErr) ==
    IF execErr
    THEN DBInitReturn(d, "ErrExec", 0)
    ELSE IF Len(d.sortedFiles) > 0
    THEN [d EXCEPT !.pc = "load"]
    ELSE [d EXCEPT !.pc = "walk"]

\* Mutant: the loop goes on to the next file after one has failed.
DBInitLoadOn(d, ok) ==
    LET i == Len(d.tried) + 1
        f == d.sortedFiles[i]
        d0 == [d EXCEPT !.tried = Append(@, f),
                        !.applied = IF ok THEN Append(@, f) ELSE @,
                        !.err = IF ok THEN "nil" ELSE "ErrLoad",
                        !.errFile = IF ok THEN 0 ELSE f]
    IN  IF i = Len(d.sortedFiles) THEN DBInitReturn(d0, d0.err, d0.errFile)
        ELSE d0

\* DBInit, one turn of the loop over sortedFiles: LoadFile of the next file,
\* break on its error, return after the last file.
DBInitLoadOf(d, ok) ==
    LET i == Len(d.tried) + 1
        f == d.sortedFiles[i]
        d0 == [d EXCEPT !.tried = Append(@, f),
                        !.applied = IF ok THEN Append(@, f) ELSE @]
    IN  IF ~ok THEN DBInitReturn(d0, "ErrLoad", f)
        ELSE IF i = Len(d.sortedFiles) THEN DBInitReturn(d0, "nil", 0)
        ELSE d0

\* DBInit, one visit of filepath.Walk to a .sql file of the directory (other
\* entries are passed over): the walk's own error is returned, or the file is
\* loaded and its error returned.
DBInitWalkOf(d, outcome) ==
    LET left == {f \in d.dir : \A i \in DOMAIN d.tried : d.tried[i] # f}
        f == CHOOSE x \in left : \A y \in left : x <= y
        d0 == [d EXCEPT !.tried = Append(@, f),
                        !.applied = IF outcome = "ok" THEN Append(@, f) ELSE @]
    IN  IF left = {} THEN DBInitReturn(d, "nil", 0)
        ELSE IF outcome = "unreadable" THEN DBInitReturn(d, "ErrWalk", 0)
        ELSE IF outcome = "fail" THEN DBInitReturn(d0, "ErrLoad", f)
        ELSE d0

\* A Mysql value of either iteration, a directory of schema files, and a
\* server on which the target database exists or not.
InitMysql ==
    /\ variant = "pagemap"
    /\ store = <<>>
    /\ argv = [a \in Objects |-> [lk |-> "nil", l |-> 0, ok |-> "nil", o |-> 0]]
    /\ h = NewHandler
    /\ rows = <<>>
    /\ last = NoCall
    /\ fetch = NoFetch
    /\ stmt = "open"
    /\ filters = {}
    /\ origin = {}
    /\ paging = NewPaging(variant, origin)
    /\ other = NoOther
    /\ walk = NoWalk
    /\ trip = NoTrip
    /\ mysql \in {[NoMysql EXCEPT !.version = v] : v \in MysqlVersions}
    /\ dbinit \in {[NoDBInit EXCEPT !.dir = dir, !.exists = e] :
                       dir \in SUBSET FileNames, e \in BOOLEAN}

Handler == <<variant, store, argv, h, rows, last, fetch, stmt, paging, filters,
             origin, other, walk, trip>>

MysqlOpen(openErr, pingErr) ==
    /\ Len(mysql.pools) < MaxOpens
    /\ mysql' = MysqlOpenOf(mysql, openErr, pingErr)
    /\ UNCHANGED <<Handler, dbinit>>

MysqlClose ==
    /\ mysql' = [MysqlCloseOf(mysql) EXCEPT !.op = "Close", !.err = "nil"]
    /\ UNCHANGED <<Handler, dbinit>>

DBInitConnect(files, openErr) ==
    /\ mysql.version = "core"
    /\ dbinit.pc = "idle"
    /\ dbinit' = DBInitConnectOf(dbinit, files, openErr)
    /\ UNCHANGED <<Handler, mysql>>

DBInitCheck(getErr) ==
    /\ dbinit.pc = "check"
    /\ dbinit' = DBInitCheckOf(dbinit, getErr)
    /\ UNCHANGED <<Handler, mysql>>

DBInitCreate(execErr) ==
    /\ dbinit.pc = "create"
    /\ dbinit' = DBInitCreateOf(dbinit, execErr)
    /\ UNCHANGED <<Handler, mysql>>

DBInitLoad(ok) ==
    /\ dbinit.pc = "load"
    /\ dbinit' = DBInitLoadOf(dbinit, ok)
    /\ UNCHANGED <<Handler, mysql>>

DBInitWalk(outcome) ==
    /\ dbinit.pc = "walk"
    /\ dbinit' = DBInitWalkOf(dbinit, outcome)
    /\ UNCHANGED <<Handler, mysql>>

NextMysql ==
    \/ \E openErr, pingErr \in BOOLEAN : MysqlOpen(openErr, pingErr)
    \/ MysqlClose
    \/ \E files \in FileLists, openErr \in BOOLEAN : DBInitConnect(files, openErr)
    \/ \E getErr \in BOOLEAN : DBInitCheck(getErr)
    \/ \E execErr \in BOOLEAN : DBInitCreate(execErr)
    \/ \E ok \in BOOLEAN : DBInitLoad(ok)
    \/ \E outcome \in {"ok", "fail", "unreadable"} : DBInitWalk(outcome)

SpecMysql == InitMysql /\ [][NextMysql]_vars

\* =================================================================== claims
\* A call of Select that returned nil after running the statement.
SelectSucceeded == last.op = "Select" /\ last.queried /\ last.err = "nil"

\* A first Select (the handler was unbound) asking for limit >= 1, offset >= 0.
FirstValidSelect ==
    /\ SelectSucceeded
    /\ last.first
    /\ last.req.lk = "int" /\ last.req.l >= 1
    /\ last.req.ok = "int" /\ last.req.o >= 0

\* C1: a first Select with limit >= 1 and offset >= 0 over a store of N rows
\* returns the contiguous block of rows that starts at position offset + 1,
\* min(limit, N - offset) rows long when N > offset, and no row with
\* hasNext = FALSE when N <= offset.
Thm_C1_FirstWindow ==
    FirstValidSelect =>
        LET N == Len(store)
            o == last.req.o
            L == last.req.l
        IN  /\ N > o => rows = [i \in 1 .. Min(L, N - o) |-> store[o + i]]
            /\ N <= o => rows = <<>> /\ ~h.hasNext

\* C1 witness: a first Select that had to drop the extra row, and one that
\* returned a short last page.
Wit_C1_FirstWindow ==
    /\ FirstValidSelect
    /\ Len(store) > last.req.o + last.req.l
    /\ Len(rows) = last.req.l
    /\ last.fetched = last.req.l + 1
    /\ last.req.o > 0

\* C2: after a successful Select with effective limit L at offset o over N
\* rows, hasNext holds exactly when N >= o + L + 1.
CE_C2_HasNextIff ==
    SelectSucceeded => (h.hasNext <=> Len(store) >= last.q.o + h.limit + 1)

\* C3: after every successful Select, previousOffset = max(0, offset - limit)
\* and hasPrevious = (offset > 0), for the offset the fetch used.
CE_C3_Previous ==
    SelectSucceeded =>
        /\ h.previous = Max(0, last.q.o - h.limit)
        /\ h.hasPrevious <=> last.q.o > 0

\* C4: after every successful Select, nextOffset = offset + limit when hasNext
\* and offset + (rows returned to the caller) otherwise.
CE_C4_Next ==
    SelectSucceeded =>
        h.next = last.q.o + (IF h.hasNext THEN h.limit ELSE Len(rows))

\* C5: in every reachable state the four descriptors describe the most recent
\* successful query: its offset and the number of rows it returned.
CE_C5_OneFetch ==
    fetch.done =>
        /\ h.hasPrevious <=> fetch.o > 0
        /\ h.previous = Max(0, fetch.o - h.limit)
        /\ h.hasNext <=> fetch.n > h.limit
        /\ h.next = fetch.o + Min(fetch.n, h.limit)

\* C6: once the handler is bound, its effective limit, as GetPrevious and
\* GetNext report it, never changes and the handler never becomes unbound
\* again, whatever is called next and whatever limit the argument carries.
Thm_C6_LimitFixed ==
    [][h.args # NilArg =>
          /\ h'.args # NilArg
          /\ (GetPrevious.limit)' = GetPrevious.limit
          /\ (GetNext.limit)' = GetNext.limit]_vars

\* C6 witness: a bound handler served a Select whose argument carried another
\* limit than the one it wrote back when it bound.
Wit_C6_LimitFixed ==
    /\ SelectSucceeded
    /\ ~last.first
    /\ last.req.l # h.limit + 1
    /\ last.req.l >= 1
    /\ GetNext.limit # last.req.l

\* C7: no Select hands the statement a limit of 0 or less.
CE_C7_PositiveLimit ==
    (last.op = "Select" /\ last.queried /\ last.q.lk = "int") => last.q.l >= 1

\* A step that is a navigation call, or a Select with the bound argument.
PagingStep ==
    \/ last'.op \in {"SelectNext", "SelectPrevious", "MoveForward", "MoveBackward"}
    \/ last'.op = "Select" /\ last'.arg = h.args

\* The bound argument asks for one row more than the page size.
OverFetch == h.args # NilArg /\ argv[h.args].l = h.limit + 1

\* C8: the Select that binds the handler leaves limit + 1 in the bound
\* argument, navigation and Select with the bound argument keep it there,
\* and each query of those calls asks for exactly limit + 1 rows.
Thm_C8_OverFetchKept ==
    [][/\ (h.args = NilArg /\ h'.args # NilArg) =>
             /\ OverFetch'
             /\ last'.queried /\ last'.q.l = h'.limit + 1
       /\ (OverFetch /\ PagingStep) =>
             /\ OverFetch'
             /\ last'.queried => last'.q.l = h'.limit + 1]_vars

\* C8 witness: a SelectNext ran its query for limit + 1 rows.
Wit_C8_OverFetchKept ==
    /\ last.op = "SelectNext"
    /\ last.queried /\ last.err = "nil"
    /\ OverFetch
    /\ last.q.l = h.limit + 1
    /\ last.fetched = h.limit + 1

\* C9: in src/subset.go a first Select into a pointer to a slice asking for a
\* limit below 1 fails only if the store does, binds the limit to DefaultLimit and queries for
\* DefaultLimit + 1 rows; one asking for a negative offset queries at offset 0
\* and derives the descriptors from offset 0.
Thm_C9_SubsetDefaults ==
    (variant = "subset" /\ last.op = "Select" /\ last.first
        /\ last.cont = "slice") =>
        /\ last.req.l < 1 =>
              /\ last.queried
              /\ last.err = "nil" \/ last.fail
              /\ h.limit = DefaultLimit
              /\ last.q.l = DefaultLimit + 1
        /\ last.req.o < 0 =>
              /\ last.queried /\ last.q.o = 0
              /\ last.err = "nil" \/ last.fail
              /\ last.err = "nil" =>
                    /\ ~h.hasPrevious /\ h.previous = 0
                    /\ h.next = Min(last.fetched, h.limit)
                    /\ rows = SubSeq(store, 1, Min(Len(store), h.limit))

\* C9 witness: a first Select asked for limit 0 at offset -1 and succeeded.
Wit_C9_SubsetDefaults ==
    /\ variant = "subset" /\ last.op = "Select" /\ last.first
    /\ last.req.l < 1 /\ last.req.o < 0
    /\ last.err = "nil"
    /\ h.limit = DefaultLimit
    /\ Len(rows) > 0

\* A first Select of page.go or part_000 whose requested limit is unset
\* (`unset`) or is set and below 1.
FirstBadLimit(v, unset) ==
    /\ variant = v /\ last.op = "Select" /\ last.first
    /\ IF unset THEN last.req.lk = "nil"
                ELSE last.req.lk = "int" /\ last.req.l < 1

\* The limit a fresh handler of variant v binds when first called with b.
BoundLimitFor(v, b) ==
    SelectOf(v, NewHandler, [x \in Objects |-> b], 1, <<>>, "slice", FALSE).h.limit

\* A requested limit that is unset, or set and below 1.
BadLimit(b) == b.lk = "nil" \/ b.l < 1

\* C10 as stated: in page.go and part_000 every first Select whose limit is
\* unset or below 1 binds one and the same limit, whichever of the two it was.
CE_C10_OneDefault ==
    \A v \in {"page", "subsetinit"} :
        (variant = v /\ last.op = "Select" /\ last.first /\ BadLimit(last.req)) =>
            \A b \in ArgValues(v) : BadLimit(b) => h.limit = BoundLimitFor(v, b)

\* C10 amended: page.go coerces a limit below 1 (its int limit has no unset
\* value) to 1; part_000 coerces an unset limit to DefaultLimit and a limit
\* that is set but below 1 to 1.
Thm_C10_TwoDefaults ==
    /\ FirstBadLimit("subsetinit", TRUE) =>
           h.limit = DefaultLimit /\ last.q.l = DefaultLimit + 1
    /\ FirstBadLimit("subsetinit", FALSE) => h.limit = 1 /\ last.q.l = 2
    /\ FirstBadLimit("page", FALSE) => h.limit = 1 /\ last.q.l = 2
    /\ ~FirstBadLimit("page", TRUE)

\* C10 witness: part_000 bound DefaultLimit for an unset limit.
Wit_C10_TwoDefaults ==
    /\ FirstBadLimit("subsetinit", TRUE)
    /\ last.err = "nil"
    /\ h.limit = DefaultLimit

\* C11: a request for the previous window (SelectPrevious, MoveBackward)
\* while hasPrevious is FALSE, before any Select included, returns ErrBOF,
\* which is not the store's "no rows" error, runs no query and leaves the
\* arguments and the descriptors as they were.
CE_C11_BeginOfResults ==
    [][(last'.op \in {"SelectPrevious", "MoveBackward"} /\ ~h.hasPrevious) =>
          /\ last'.err = "ErrBOF"
          /\ ~last'.queried
          /\ argv' = argv
          /\ h' = h]_vars

\* C12: a request for the next window (SelectNext, MoveForward) while hasNext
\* is FALSE returns ErrEOF, which is not the store's "no rows" error, and
\* runs no query.
CE_C12_EndOfResults ==
    [][(last'.op \in {"SelectNext", "MoveForward"} /\ ~h.hasNext) =>
          /\ last'.err = "ErrEOF"
          /\ ~last'.queried]_vars

\* The errors Select returns for what the caller passed.
ValidationErrors == {"ErrInvalidLimit", "ErrInvalidOffset", "ErrInvalidContainer"}

\* C13: no call of Select runs the query and then returns ErrInvalidLimit,
\* ErrInvalidOffset or ErrInvalidContainer.
CE_C13_ValidateFirst ==
    (last.op \in {"Select", "PagingSelect"} /\ last.err \in ValidationErrors) =>
        ~last.queried

\* A map that holds a limit that is no integer >= 1, or an offset that is no
\* integer >= 0.
InvalidLimit(b) == b.lk = "other" \/ (b.lk = "int" /\ b.l < 1)
InvalidOffset(b) == b.ok = "other" \/ (b.ok = "int" /\ b.o < 0)

\* C14: in src/core.go every Select, first or later, returns ErrInvalidLimit
\* when the map holds a limit that is no integer >= 1, otherwise
\* ErrInvalidOffset when it holds an offset that is no integer >= 0, and
\* hands the query no such limit or offset.
CE_C14_StrictValidation ==
    (variant = "pagemap" /\ last.op = "Select") =>
        /\ InvalidLimit(last.req) => last.err = "ErrInvalidLimit"
        /\ (~InvalidLimit(last.req) /\ InvalidOffset(last.req)) =>
               last.err = "ErrInvalidOffset"
        /\ last.queried => ~InvalidLimit(last.q) /\ ~InvalidOffset(last.q)

\* C15: a Select, called by the caller or by SelectNext / SelectPrevious,
\* hands the statement one argument and takes its one answer; when that
\* execution fails, Select returns the statement's error itself,
\* the container, the descriptors and the record of the last successful
\* query stay as they were, and no second execution turns the call into a
\* success.
Thm_C15_NoRetry ==
    [][(last'.queried /\ ~StmtOK(last'.q, last'.fail)) =>
          /\ last'.err = "ErrQuery"
          /\ rows' = rows
          /\ fetch' = fetch
          /\ [h' EXCEPT !.args = h.args, !.limit = h.limit] = h]_vars

\* C15 witness: the store failed under a Select of a handler that had
\* returned rows before; the rows are still in the container.
Wit_C15_NoRetry ==
    /\ last.op = "Select" /\ last.queried /\ last.fail
    /\ last.err = "ErrQuery"
    /\ fetch.done
    /\ Len(rows) > 0
    /\ h.hasNext

\* C16: when Paging.Select returns, with nil or with the error of the
\* handler's Select, the statement has been released.
CE_C16_ReleasedOnReturn ==
    last.op = "PagingSelect" => stmt = "closed"

\* C17: Close, called any number of times and at any point, also after
\* Paging.Select has released the statement, does not fail, leaves the
\* statement released and changes nothing else; on a released statement it
\* changes nothing at all.
Thm_C17_CloseIdempotent ==
    [][last'.op = "Close" =>
          /\ last'.err = "nil"
          /\ stmt' = "closed"
          /\ stmt = "closed" => stmt' = stmt
          /\ <<h, argv, rows, fetch, paging>>' = <<h, argv, rows, fetch, paging>>]_vars

\* C17 witness: Close on a statement that Paging.Select, having built a link,
\* had released already.
Wit_C17_CloseIdempotent ==
    /\ last.op = "Close"
    /\ last.stmt = "closed"
    /\ stmt = "closed"
    /\ paging.next.set

\* A Paging.Select that returned nil.
PagingSucceeded == last.op = "PagingSelect" /\ last.err = "nil"

\* C18: after a Paging.Select that returned nil the previous link is there
\* exactly when hasPrevious holds and the next link exactly when hasNext
\* holds; a link that is not there does not make Paging.Select fail.
Thm_C18_LinksFollowFlags ==
    PagingSucceeded =>
        /\ paging.previous.set <=> h.hasPrevious
        /\ paging.next.set <=> h.hasNext

\* C18 witness: Paging.Select returned nil on the last page: a previous link
\* and no next link.
Wit_C18_LinksFollowFlags ==
    /\ PagingSucceeded
    /\ h.hasPrevious /\ paging.previous.set
    /\ ~h.hasNext /\ ~paging.next.set

\* The query string the link to the window at offset `o` is to carry: the
\* filters without the limit and offset keys, the effective limit, and `o`.
ExpectedQuery(o) ==
    QueryDel(QueryDel(filters, KeyLimit), KeyOffset)
        \cup {<<KeyLimit, Itoa(h.limit)>>, <<KeyOffset, Itoa(o)>>}

\* C19: each link Paging.Select built carries the filter pairs whose key is
\* neither the limit nor the offset key, the effective limit under the limit
\* key, its own offset under the offset key, and nothing else.
CE_C19_LinkParameters ==
    PagingSucceeded =>
        /\ paging.previous.set => paging.previous.query = ExpectedQuery(h.previous)
        /\ paging.next.set => paging.next.query = ExpectedQuery(h.next)

\* The second handler ended as the first: the same error, the same rows, the
\* same effective limit and descriptors.
SameOutcome ==
    /\ other.err = last.err
    /\ other.rows = rows
    /\ [other.h EXCEPT !.args = h.args] = h

CE_C21_NoUseAfterRelease ==
    last.queried => last.stmt = "open"

\* C22: a SelectNext or SelectPrevious whose query fails leaves the offset of
\* the bound argument and the four descriptors as they were before the call.
CE_C22_FailedMoveKeepsPosition ==
    [][(last'.op \in {"SelectNext", "SelectPrevious"}
            /\ last'.queried /\ last'.err = "ErrQuery") =>
          /\ argv'[h.args].o = argv[h.args].o
          /\ h' = h]_vars

\* C23: in src/core.go a Select that returns ErrInvalidLimit or
\* ErrInvalidOffset leaves the caller's map and the handler (effective limit,
\* bound argument, descriptors) as they were before the call.
CE_C23_RejectedSelectKeepsState ==
    [][(variant = "pagemap" /\ last'.op = "Select"
            /\ last'.err \in {"ErrInvalidLimit", "ErrInvalidOffset"}) =>
          /\ argv' = argv
          /\ h' = h]_vars

\* The loop has ended: SelectNext returned its end-of-results error.
WalkEnded == walk.on /\ last.op = "SelectNext" /\ last.err # "nil"

\* C24: from a successful Select at offset 0 with a limit of at least 1, over
\* a store of N rows that does not change and answers every query, calling
\* SelectNext until it reports the end of the results takes at most N + 1
\* calls (the loop ends), the call that ends it returns the end-of-results
\* error of the variant, and the windows received, put one after the other
\* in call order, are the N rows of the store in store order.
Thm_C24_WalkReadsStore ==
    /\ walk.calls <= Len(store) + 1
    /\ WalkEnded =>
          /\ last.err = BoundaryErr(variant, "ErrEOF")
          /\ ~last.queried
          /\ walk.seen = store

\* A walk of three windows has ended.
Wit_C24_WalkReadsStore ==
    WalkEnded /\ walk.calls = MaxRows /\ walk.seen = store /\ Len(store) = MaxRows

\* C25: over a store that does not change, a successful SelectNext from a
\* window at offset o followed at once by a successful SelectPrevious leaves
\* the bound argument at offset o again, the container with the rows it held
\* before the SelectNext and the handler with the same limit, previous, next,
\* hasPrevious and hasNext, whatever o is, a multiple of the limit or not.
Thm_C25_NextThenPrevious ==
    trip.back =>
        /\ argv[h.args].o = trip.o
        /\ fetch.o = trip.o
        /\ rows = trip.rows
        /\ h = trip.h

\* The caller is back at an offset that is not a multiple of the limit.
Wit_C25_NextThenPrevious ==
    trip.back /\ h.limit > 1 /\ trip.o % h.limit # 0 /\ Len(rows) = h.limit

\* The files DBInit has applied are the first ones of `list`, in its order.
AppliedInOrder(list) ==
    /\ Len(dbinit.tried) <= Len(list)
    /\ \A i \in DOMAIN dbinit.tried : dbinit.tried[i] = list[i]

\* C26: DBInit applies no schema file when the target database exists.
\* Otherwise, given a non-empty sortedFiles, the files it has tried are at
\* every moment the first files of sortedFiles in list order; every file
\* tried was applied, except that a file that fails is the last one tried:
\* DBInit has then returned with that file's error. A DBInit that returned
\* without error and found no database has applied the whole list. Once
\* DBInit has returned, whatever the exit, its init connection is closed.
Thm_C26_DBInitInOrder ==
    /\ dbinit.exists => dbinit.tried = <<>>
    /\ Len(dbinit.sortedFiles) > 0 =>
          /\ AppliedInOrder(dbinit.sortedFiles)
          /\ \/ dbinit.applied = dbinit.tried
             \/ /\ dbinit.tried = Append(dbinit.applied, dbinit.errFile)
                /\ dbinit.pc = "done"
                /\ dbinit.err = "ErrLoad"
          /\ (dbinit.pc = "done" /\ dbinit.err = "nil" /\ ~dbinit.hasDB) =>
                dbinit.applied = dbinit.sortedFiles
    /\ dbinit.pc = "done" => dbinit.conn # "open"

\* DBInit stopped at the first of two files, with its connection closed.
Wit_C26_DBInitInOrder ==
    /\ dbinit.pc = "done"
    /\ dbinit.err = "ErrLoad"
    /\ Len(dbinit.sortedFiles) = MaxFiles
    /\ dbinit.errFile = dbinit.sortedFiles[1]
    /\ dbinit.applied = <<>>
    /\ dbinit.conn = "closed"

\* The pools opened by Open that are not closed.
OpenPools == {i \in DOMAIN mysql.pools : mysql.pools[i] = "open"}

\* C27: after any sequence of Open and Close calls on one Mysql value, at
\* most one pool opened by Open is not closed, and it is the one the value
\* holds: Open has closed the pool held before; after an Open that failed
\* no pool is open.
Thm_C27_OnePoolOpen ==
    /\ Cardinality(OpenPools) <= 1
    /\ OpenPools \subseteq {mysql.DB}
    /\ (mysql.op = "Open" /\ mysql.err # "nil") =>
          /\ mysql.DB = 0
          /\ OpenPools = {}

\* A second Open of the core.go value has succeeded: the pool the first Open
\* returned is closed, the new one is open and held.
Wit_C27_OnePoolOpen ==
    /\ mysql.version = "core"
    /\ mysql.op = "Open"
    /\ Len(mysql.pools) >= 2
    /\ mysql.pools[1] = "closed"
    /\ mysql.DB = Len(mysql.pools)
    /\ OpenPools = {mysql.DB}

====
